---- MODULE Spec2Model ----
(***************************************************************************)
(* CHIP-8 virtual machine (src/src/chip8/cpu.rs, src/src/main.rs).         *)
(* The machine is the record chip8 (the fields of struct Chip8); every     *)
(* &mut self method is an operator from the machine record to the machine  *)
(* record, and every action applies one method call of the host.           *)
(***************************************************************************)
EXTENDS Integers, Sequences, FiniteSets, TLC

\* ------------------------------------------------------------------------
\* chip8::constants (the module is imported by cpu.rs; values per the
\* specification's data model)
\* ------------------------------------------------------------------------
MEMORY_SIZE == 4096
NUM_REGISTERS == 16
STACK_SIZE == 16
DISPLAY_WIDTH == 64
DISPLAY_HEIGHT == 32
NUM_KEYS == 16
PROGRAM_START == 512
FONT_START == 80

FONT_SET ==
    << 240, 144, 144, 144, 240,    32,  96,  32,  32, 112,
       240,  16, 240, 128, 240,   240,  16, 240,  16, 240,
       144, 144, 240,  16,  16,   240, 128, 240,  16, 240,
       240, 128, 240, 144, 240,   240,  16,  32,  64,  64,
       240, 144, 240, 144, 240,   240, 144, 240,  16, 240,
       240, 144, 240, 144, 144,   224, 144, 224, 144, 224,
       240, 128, 128, 128, 240,   224, 144, 144, 144, 224,
       240, 128, 240, 128, 240,   240, 128, 240, 128, 128 >>

\* ------------------------------------------------------------------------
\* Machine integers
\* ------------------------------------------------------------------------
U8 == 256
U16 == 65536

RECURSIVE BitAnd(_, _)
BitAnd(a, b) ==
    IF a = 0 \/ b = 0 THEN 0
    ELSE (a % 2) * (b % 2) + 2 * BitAnd(a \div 2, b \div 2)

RECURSIVE BitOr(_, _)
BitOr(a, b) ==
    IF a = 0 THEN b
    ELSE IF b = 0 THEN a
    ELSE (IF a % 2 = 1 \/ b % 2 = 1 THEN 1 ELSE 0) + 2 * BitOr(a \div 2, b \div 2)

RECURSIVE BitXor(_, _)
BitXor(a, b) ==
    IF a = 0 THEN b
    ELSE IF b = 0 THEN a
    ELSE ((a + b) % 2) + 2 * BitXor(a \div 2, b \div 2)

\* Option<u8>
None == << >>
Some(x) == << x >>

\* ------------------------------------------------------------------------
\* DecodedFields::new
\* ------------------------------------------------------------------------
DecodedFields_XShiftedByFour(opcode) ==
    [ first_nibble |-> BitAnd(opcode, 61440) \div 4096,
      x            |-> BitAnd(opcode, 3840) \div 16,
      y            |-> BitAnd(opcode, 240) \div 16,
      n            |-> BitAnd(opcode, 15),
      nn           |-> BitAnd(opcode, 255),
      nnn          |-> BitAnd(opcode, 4095) ]

DecodedFields(opcode) ==
    [ first_nibble |-> BitAnd(opcode, 61440) \div 4096,
      x            |-> BitAnd(opcode, 3840) \div 256,
      y            |-> BitAnd(opcode, 240) \div 16,
      n            |-> BitAnd(opcode, 15),
      nn           |-> BitAnd(opcode, 255),
      nnn          |-> BitAnd(opcode, 4095) ]

\* ------------------------------------------------------------------------
\* Chip8::new
\* ------------------------------------------------------------------------
\* memory: [u8; MEMORY_SIZE] is held as the function from the addresses of
\* its non-zero bytes to those bytes: Mem reads the byte at an address
\* and MemSet writes one.  Bounds are checked where the code indexes.
Mem(memory, a) == IF a \in DOMAIN memory THEN memory[a] ELSE 0

MemSet(memory, a, byte) ==
    IF byte = 0
    THEN [ b \in DOMAIN memory \ {a} |-> memory[b] ]
    ELSE [ b \in DOMAIN memory \cup {a} |-> IF b = a THEN byte ELSE memory[b] ]

\* display: [[bool; DISPLAY_WIDTH]; DISPLAY_HEIGHT] is held as the set of
\* the << y, x >> whose pixel is true
Pixel(display, y, x) == << y, x >> \in display

PixelToggle(display, y, x) ==
    IF << y, x >> \in display THEN display \ { << y, x >> } ELSE display \cup { << y, x >> }

ClearDisplay == {}

\* memory[start + k] = data[k] for every index k of data, as the loop of
\* new() and copy_from_slice of load_rom do
MemCopy(memory, start, data) ==
    LET range   == start..(start + Len(data) - 1)
        nonzero == { a \in range : data[a - start + 1] # 0 }
    IN  [ a \in (DOMAIN memory \ range) \cup nonzero |->
            IF a \in range THEN data[a - start + 1] ELSE memory[a] ]

Chip8New ==
    [ memory          |-> MemCopy(<< >>, FONT_START, FONT_SET),
      v               |-> [ r \in 0..(NUM_REGISTERS - 1) |-> 0 ],
      i               |-> 0,
      pc              |-> PROGRAM_START,
      stack           |-> [ s \in 0..(STACK_SIZE - 1) |-> 0 ],
      sp              |-> 0,
      display         |-> ClearDisplay,
      keys            |-> [ k \in 0..(NUM_KEYS - 1) |-> FALSE ],
      delay_timer     |-> 0,
      sound_timer     |-> 0,
      waiting_for_key |-> None ]

\* ------------------------------------------------------------------------
\* Chip8::load_rom
\* ------------------------------------------------------------------------
LoadRomPanics_RejectsFull(data) == PROGRAM_START + Len(data) >= MEMORY_SIZE

LoadRomPanics(data) == PROGRAM_START + Len(data) > MEMORY_SIZE

load_rom(self, data) ==
    [ self EXCEPT !.memory = MemCopy(self.memory, PROGRAM_START, data) ]

\* ------------------------------------------------------------------------
\* Chip8::tick_timers
\* ------------------------------------------------------------------------
tick_timers_Wrapping(self) ==
    [ self EXCEPT
        !.delay_timer = (self.delay_timer + U8 - 1) % U8,
        !.sound_timer = IF self.sound_timer > 0 THEN self.sound_timer - 1 ELSE self.sound_timer ]

tick_timers(self) ==
    [ self EXCEPT
        !.delay_timer = IF self.delay_timer > 0 THEN self.delay_timer - 1 ELSE self.delay_timer,
        !.sound_timer = IF self.sound_timer > 0 THEN self.sound_timer - 1 ELSE self.sound_timer ]

\* ------------------------------------------------------------------------
\* Chip8::fetch
\* ------------------------------------------------------------------------
FetchPanics(self) == self.pc + 1 >= MEMORY_SIZE

FetchOpcode(self) ==
    LET high_byte == Mem(self.memory, self.pc)
        low_byte  == Mem(self.memory, self.pc + 1)
    IN  BitOr(high_byte * 256, low_byte)

fetch(self) == [ self EXCEPT !.pc = self.pc + 2 ]

\* ------------------------------------------------------------------------
\* Chip8::cycle, key-wait guard: every pressed key is visited in index
\* order 0..NUM_KEYS-1 and the loop body runs for each of them
\* ------------------------------------------------------------------------
RECURSIVE KeyWaitScan(_, _, _)
KeyWaitScan(self, vx, key_index) ==
    IF key_index >= NUM_KEYS THEN self
    ELSE IF self.keys[key_index]
         THEN KeyWaitScan([ self EXCEPT !.v[vx] = key_index, !.waiting_for_key = None ],
                          vx, key_index + 1)
         ELSE KeyWaitScan(self, vx, key_index + 1)

KeyWaitGuard(self) == KeyWaitScan(self, self.waiting_for_key[1], 0)

\* ------------------------------------------------------------------------
\* Chip8::cycle, the arms of the match (self is the machine after fetch)
\* ------------------------------------------------------------------------
\* 0x0 family: 00E0, 00EE, 0NNN
Op00E0(self) == [ self EXCEPT !.display = ClearDisplay ]

Op00EE_PopsOldest(self) ==
    IF self.sp = 0 THEN self
    ELSE [ self EXCEPT !.sp = self.sp - 1, !.pc = self.stack[0],
                       !.stack = [ s \in 0..(STACK_SIZE - 1) |->
                                     IF s + 1 < STACK_SIZE THEN self.stack[s + 1] ELSE 0 ] ]

Op00EE(self) ==
    IF self.sp = 0 THEN self
    ELSE [ self EXCEPT !.sp = self.sp - 1, !.pc = self.stack[self.sp - 1] ]

Op0(self, opcode) ==
    IF opcode = 224 THEN Op00E0(self)
    ELSE IF opcode = 238 THEN Op00EE(self)
    ELSE self

\* 1NNN
Op1NNN(self, d) == [ self EXCEPT !.pc = d.nnn ]

\* 2NNN
Op2NNN_JumpOnOverflow(self, d) ==
    IF self.sp >= STACK_SIZE THEN [ self EXCEPT !.pc = d.nnn ]
    ELSE [ self EXCEPT !.stack[self.sp] = self.pc, !.sp = self.sp + 1, !.pc = d.nnn ]

Op2NNN_PushCallAddress(self, d) ==
    IF self.sp >= STACK_SIZE THEN self
    ELSE [ self EXCEPT !.stack[self.sp] = self.pc - 2, !.sp = self.sp + 1, !.pc = d.nnn ]

Op2NNN(self, d) ==
    IF self.sp >= STACK_SIZE THEN self
    ELSE [ self EXCEPT !.stack[self.sp] = self.pc, !.sp = self.sp + 1, !.pc = d.nnn ]

\* 3XNN, 4XNN, 5XY0, 9XY0
Op3XNN_LowNibble(self, d) ==
    IF self.v[d.x] % 16 = d.n THEN [ self EXCEPT !.pc = self.pc + 2 ] ELSE self

Op3XNN(self, d) == IF self.v[d.x] = d.nn THEN [ self EXCEPT !.pc = self.pc + 2 ] ELSE self

Op4XNN(self, d) == IF self.v[d.x] # d.nn THEN [ self EXCEPT !.pc = self.pc + 2 ] ELSE self

Op5XY0_IgnoreN(self, d) ==
    IF self.v[d.x] = self.v[d.y] THEN [ self EXCEPT !.pc = self.pc + 2 ] ELSE self

Op5XY0(self, d) ==
    IF d.n = 0
    THEN IF self.v[d.x] = self.v[d.y] THEN [ self EXCEPT !.pc = self.pc + 2 ] ELSE self
    ELSE self

Op9XY0(self, d) ==
    IF d.n = 0
    THEN IF self.v[d.x] # self.v[d.y] THEN [ self EXCEPT !.pc = self.pc + 2 ] ELSE self
    ELSE self

\* 6XNN, 7XNN
Op6XNN(self, d) == [ self EXCEPT !.v[d.x] = d.nn ]

Op7XNN(self, d) == [ self EXCEPT !.v[d.x] = (self.v[d.x] + d.nn) % U8 ]

\* 8XYN: the second assignment (to v[0xF]) is made after the first
Op8XY0(self, d) == [ self EXCEPT !.v[d.x] = self.v[d.y] ]

Op8XY1(self, d) == [ self EXCEPT !.v[d.x] = BitOr(self.v[d.x], self.v[d.y]) ]

Op8XY2(self, d) == [ self EXCEPT !.v[d.x] = BitAnd(self.v[d.x], self.v[d.y]) ]

Op8XY3(self, d) == [ self EXCEPT !.v[d.x] = BitXor(self.v[d.x], self.v[d.y]) ]

Op8XY4_CarryOffByOne(self, d) ==
    LET sum    == self.v[d.x] + self.v[d.y]
        result == sum % U8
        carry  == sum > U8
        v1     == [ self.v EXCEPT ![d.x] = result ]
    IN  [ self EXCEPT !.v = [ v1 EXCEPT ![15] = IF carry THEN 1 ELSE 0 ] ]

Op8XY4(self, d) ==
    LET sum    == self.v[d.x] + self.v[d.y]
        result == sum % U8
        carry  == sum >= U8
        v1     == [ self.v EXCEPT ![d.x] = result ]
    IN  [ self EXCEPT !.v = [ v1 EXCEPT ![15] = IF carry THEN 1 ELSE 0 ] ]

Op8XY5_BorrowOnEqual(self, d) ==
    LET result == (self.v[d.x] - self.v[d.y] + U8) % U8
        borrow == self.v[d.x] <= self.v[d.y]
        v1     == [ self.v EXCEPT ![d.x] = result ]
    IN  [ self EXCEPT !.v = [ v1 EXCEPT ![15] = IF borrow THEN 0 ELSE 1 ] ]

Op8XY5(self, d) ==
    LET result == (self.v[d.x] - self.v[d.y] + U8) % U8
        borrow == self.v[d.x] < self.v[d.y]
        v1     == [ self.v EXCEPT ![d.x] = result ]
    IN  [ self EXCEPT !.v = [ v1 EXCEPT ![15] = IF borrow THEN 0 ELSE 1 ] ]

Op8XY6(self, d) ==
    LET lsb == BitAnd(self.v[d.x], 1)
        v1  == [ self.v EXCEPT ![15] = lsb ]
    IN  [ self EXCEPT !.v = [ v1 EXCEPT ![d.x] = v1[d.x] \div 2 ] ]

Op8XY7(self, d) ==
    LET result == (self.v[d.y] - self.v[d.x] + U8) % U8
        borrow == self.v[d.y] < self.v[d.x]
        v1     == [ self.v EXCEPT ![d.x] = result ]
    IN  [ self EXCEPT !.v = [ v1 EXCEPT ![15] = IF borrow THEN 0 ELSE 1 ] ]

Op8XYE(self, d) ==
    LET msb == BitAnd(self.v[d.x], 128) \div 128
        v1  == [ self.v EXCEPT ![15] = msb ]
    IN  [ self EXCEPT !.v = [ v1 EXCEPT ![d.x] = (v1[d.x] * 2) % U8 ] ]

Op8(self, d) ==
    CASE d.n = 0  -> Op8XY0(self, d)
      [] d.n = 1  -> Op8XY1(self, d)
      [] d.n = 2  -> Op8XY2(self, d)
      [] d.n = 3  -> Op8XY3(self, d)
      [] d.n = 4  -> Op8XY4(self, d)
      [] d.n = 5  -> Op8XY5(self, d)
      [] d.n = 6  -> Op8XY6(self, d)
      [] d.n = 7  -> Op8XY7(self, d)
      [] d.n = 14 -> Op8XYE(self, d)
      [] OTHER    -> self

\* ANNN, BNNN, CXNN
OpANNN(self, d) == [ self EXCEPT !.i = d.nnn ]

OpBNNN(self, d) == [ self EXCEPT !.pc = d.nnn + self.v[0] ]

OpCXNN(self, d, random) == [ self EXCEPT !.v[d.x] = BitAnd(random, d.nn) ]

\* DXYN: rows 0..height-1, bits 0..7, in that order
SpriteAddr(self, row) == (self.i + row) % U16

RECURSIVE DrawBits(_, _, _, _, _, _)
DrawBits(self, sprite_byte, x_pos, y_pos, row, bit) ==
    IF bit >= 8 THEN self
    ELSE LET sprite_pixel == BitAnd(sprite_byte, 128 \div (2 ^ bit)) # 0
             x  == (x_pos + bit) % DISPLAY_WIDTH
             y  == (y_pos + row) % DISPLAY_HEIGHT
             s1 == IF Pixel(self.display, y, x) THEN [ self EXCEPT !.v[15] = 1 ] ELSE self
             s2 == [ s1 EXCEPT !.display = PixelToggle(s1.display, y, x) ]
         IN  DrawBits(IF sprite_pixel THEN s2 ELSE self,
                      sprite_byte, x_pos, y_pos, row, bit + 1)

RECURSIVE DrawRows(_, _, _, _, _)
DrawRows(self, x_pos, y_pos, height, row) ==
    IF row >= height THEN self
    ELSE DrawRows(DrawBits(self, Mem(self.memory, SpriteAddr(self, row)), x_pos, y_pos, row, 0),
                  x_pos, y_pos, height, row + 1)

OpDXYN_FlagNotCleared(self, d) ==
    LET x_pos  == self.v[d.x]
        y_pos  == self.v[d.y]
        height == d.n
    IN  DrawRows(self, x_pos, y_pos, height, 0)

OpDXYN(self, d) ==
    LET x_pos  == self.v[d.x]
        y_pos  == self.v[d.y]
        height == d.n
    IN  DrawRows([ self EXCEPT !.v[15] = 0 ], x_pos, y_pos, height, 0)

\* self.i + row as u16 overflows u16 (a panic where overflow checks are
\* compiled in, a wrap where they are not); the index must be in memory
OpDXYNPanics(self, d, overflow_checks) ==
    \E row \in 0..(d.n - 1) :
        \/ overflow_checks /\ self.i + row >= U16
        \/ SpriteAddr(self, row) >= MEMORY_SIZE

\* EX9E, EXA1
OpEX9E(self, d) ==
    LET key == self.v[d.x]
    IN  IF key < NUM_KEYS /\ self.keys[key] THEN [ self EXCEPT !.pc = self.pc + 2 ] ELSE self

OpEXA1(self, d) ==
    LET key == self.v[d.x]
    IN  IF key < NUM_KEYS /\ ~ self.keys[key] THEN [ self EXCEPT !.pc = self.pc + 2 ] ELSE self

OpE(self, d) ==
    CASE d.nn = 158 -> OpEX9E(self, d)
      [] d.nn = 161 -> OpEXA1(self, d)
      [] OTHER      -> self

\* FX07 .. FX65
OpFX07(self, d) == [ self EXCEPT !.v[d.x] = self.delay_timer ]

\* FX0A: the arm scans the keypad (first pressed key, then break) only
\* when waiting_for_key is already Some; otherwise it does nothing
RECURSIVE KeyScanBreak(_, _, _)
KeyScanBreak(self, vx, key_index) ==
    IF key_index >= NUM_KEYS THEN self
    ELSE IF self.keys[key_index]
         THEN [ self EXCEPT !.v[vx] = key_index, !.waiting_for_key = None ]
         ELSE KeyScanBreak(self, vx, key_index + 1)

OpFX0A(self, d) ==
    IF self.waiting_for_key # None
    THEN KeyScanBreak(self, self.waiting_for_key[1], 0)
    ELSE self

OpFX15(self, d) == [ self EXCEPT !.delay_timer = self.v[d.x] ]

OpFX18(self, d) == [ self EXCEPT !.sound_timer = self.v[d.x] ]

OpFX1E(self, d) == [ self EXCEPT !.i = (self.i + self.v[d.x]) % U16 ]

OpFX29(self, d) ==
    LET digit == BitAnd(self.v[d.x], 15)
    IN  [ self EXCEPT !.i = FONT_START + digit * 5 ]

OpFX33_TensNotReduced(self, d) ==
    LET value == self.v[d.x]
        m1    == MemSet(self.memory, self.i, value \div 100)
        m2    == MemSet(m1, self.i + 1, value \div 10)
        m3    == MemSet(m2, self.i + 2, value % 10)
    IN  [ self EXCEPT !.memory = m3 ]

OpFX33(self, d) ==
    LET value == self.v[d.x]
        m1    == MemSet(self.memory, self.i, value \div 100)
        m2    == MemSet(m1, self.i + 1, (value % 100) \div 10)
        m3    == MemSet(m2, self.i + 2, value % 10)
    IN  [ self EXCEPT !.memory = m3 ]

OpFX33Panics(self, d) == self.i + 2 >= MEMORY_SIZE

RECURSIVE StoreRegs(_, _, _)
StoreRegs(self, x, idx) ==
    IF idx > x THEN self
    ELSE StoreRegs([ self EXCEPT !.memory = MemSet(self.memory, self.i + idx, self.v[idx]) ],
                   x, idx + 1)

OpFX55_AdvancesIndex(self, d) ==
    [ StoreRegs(self, d.x, 0) EXCEPT !.i = (self.i + d.x + 1) % U16 ]

OpFX55(self, d) == StoreRegs(self, d.x, 0)

RECURSIVE LoadRegs(_, _, _)
LoadRegs(self, x, idx) ==
    IF idx > x THEN self
    ELSE LoadRegs([ self EXCEPT !.v[idx] = Mem(self.memory, self.i + idx) ], x, idx + 1)

OpFX65(self, d) == LoadRegs(self, d.x, 0)

OpFX55Panics(self, d) == self.i + d.x >= MEMORY_SIZE

OpF(self, d) ==
    CASE d.nn = 7   -> OpFX07(self, d)
      [] d.nn = 10  -> OpFX0A(self, d)
      [] d.nn = 21  -> OpFX15(self, d)
      [] d.nn = 24  -> OpFX18(self, d)
      [] d.nn = 30  -> OpFX1E(self, d)
      [] d.nn = 41  -> OpFX29(self, d)
      [] d.nn = 51  -> OpFX33(self, d)
      [] d.nn = 85  -> OpFX55(self, d)
      [] d.nn = 101 -> OpFX65(self, d)
      [] OTHER      -> self

\* ------------------------------------------------------------------------
\* Chip8::cycle
\* ------------------------------------------------------------------------
Execute(self, opcode, random) ==
    LET decoded == DecodedFields(opcode)
    IN  CASE decoded.first_nibble = 0  -> Op0(self, opcode)
          [] decoded.first_nibble = 1  -> Op1NNN(self, decoded)
          [] decoded.first_nibble = 2  -> Op2NNN(self, decoded)
          [] decoded.first_nibble = 3  -> Op3XNN(self, decoded)
          [] decoded.first_nibble = 4  -> Op4XNN(self, decoded)
          [] decoded.first_nibble = 5  -> Op5XY0(self, decoded)
          [] decoded.first_nibble = 6  -> Op6XNN(self, decoded)
          [] decoded.first_nibble = 7  -> Op7XNN(self, decoded)
          [] decoded.first_nibble = 8  -> Op8(self, decoded)
          [] decoded.first_nibble = 9  -> Op9XY0(self, decoded)
          [] decoded.first_nibble = 10 -> OpANNN(self, decoded)
          [] decoded.first_nibble = 11 -> OpBNNN(self, decoded)
          [] decoded.first_nibble = 12 -> OpCXNN(self, decoded, random)
          [] decoded.first_nibble = 13 -> OpDXYN(self, decoded)
          [] decoded.first_nibble = 14 -> OpE(self, decoded)
          [] decoded.first_nibble = 15 -> OpF(self, decoded)
          [] OTHER                     -> self

ExecutePanics(self, opcode, overflow_checks) ==
    LET decoded == DecodedFields(opcode)
    IN  \/ decoded.first_nibble = 13 /\ OpDXYNPanics(self, decoded, overflow_checks)
        \/ decoded.first_nibble = 15 /\ decoded.nn = 51 /\ OpFX33Panics(self, decoded)
        \/ decoded.first_nibble = 15 /\ decoded.nn \in {85, 101} /\ OpFX55Panics(self, decoded)

Waiting(self) == self.waiting_for_key # None

cycle(self, random) ==
    IF Waiting(self) THEN KeyWaitGuard(self)
    ELSE Execute(fetch(self), FetchOpcode(self), random)

CyclePanics(self, overflow_checks) ==
    /\ ~ Waiting(self)
    /\ \/ FetchPanics(self)
       \/ ExecutePanics(fetch(self), FetchOpcode(self), overflow_checks)

\* ------------------------------------------------------------------------
\* ROM images given to load_rom: instruction words assembled to bytes
\* ------------------------------------------------------------------------
Op(a, b, c, d) == a * 4096 + b * 256 + c * 16 + d
OpNN(a, x, nn) == a * 4096 + x * 256 + nn
OpNNN(a, nnn) == a * 4096 + nnn

Bytes(words) ==
    [ k \in 1..(2 * Len(words)) |->
        IF k % 2 = 1 THEN words[(k + 1) \div 2] \div 256 ELSE words[k \div 2] % 256 ]

\* address of the k-th word (k from 0) of a loaded image
At(k) == PROGRAM_START + 2 * k

\* 1NNN to its own address: the program stops advancing
Halt(k) == OpNNN(1, At(k))

Sel == {0, 1, 15}
Vals == {0, 1, 3, 5, 128, 255}
FlagOps == {4, 5, 6, 7, 14}

\* load two registers, apply one 8XYN
AluPrograms ==
    { Bytes(<< OpNN(6, x, a), OpNN(6, y, b), Op(8, x, y, n), Halt(3) >>) :
        x \in Sel, y \in Sel, a \in Vals, b \in Vals, n \in FlagOps }

LogicPrograms ==
    { Bytes(<< OpNN(6, 1, 5), OpNN(6, 2, 3), Op(8, 1, 2, n), OpNN(7, 1, 254), Halt(4) >>) :
        n \in {0, 1, 2, 3} }

\* calls and returns: nested calls, recursion to a full stack, return on
\* an empty stack
CallPrograms ==
    { Bytes(<< OpNNN(2, At(2)), Halt(1), 238 >>),
      Bytes(<< OpNNN(2, At(4)), OpNNN(2, At(6)), Halt(2), 0, OpNNN(2, At(6)), 238, 238 >>),
      Bytes(<< OpNNN(2, At(0)), 238, Halt(2) >>),
      Bytes(<< 238, OpNN(6, 1, 7), Halt(2) >>),
      Bytes(<< OpNN(6, 0, 4), OpNNN(11, At(0)), OpNNN(2, At(4)), Halt(3), 238 >>),
      Bytes(<< OpNNN(2, At(2)), Halt(1), OpNNN(2, At(5)), OpNNN(2, At(2)), 238, 238 >>) }

\* a machine state with registers, index, stack, display and timers set,
\* then one word w, then an ordinary instruction
Prelude ==
    << OpNN(6, 1, 5), OpNN(6, 2, 1), OpNN(6, 15, 9), OpNNN(10, FONT_START),
       Op(13, 1, 2, 5), OpNN(15, 2, 21), OpNNN(2, At(7)) >>

InvalidWords ==
    { 0, OpNNN(0, 225), OpNNN(0, 239), OpNNN(0, 4095), OpNNN(0, At(0)),
      Op(5, 1, 2, 1), Op(5, 1, 1, 15), Op(9, 1, 2, 1), Op(9, 1, 1, 15),
      Op(8, 1, 2, 8), Op(8, 1, 2, 13), Op(8, 1, 2, 15),
      OpNN(14, 1, 0), OpNN(14, 1, 157), OpNN(14, 1, 162), OpNN(14, 1, 255),
      OpNN(15, 1, 0), OpNN(15, 1, 11), OpNN(15, 1, 52), OpNN(15, 1, 86),
      OpNN(15, 1, 102), OpNN(15, 1, 255) }

InvalidPrograms ==
    { Bytes(Prelude \o << w, OpNN(7, 1, 1), Halt(9) >>) : w \in InvalidWords }

\* wait-for-key and the keypad skips
KeyPrograms ==
    { Bytes(<< OpNN(6, x, 9), OpNN(15, x, 10), OpNN(7, x, 1), Halt(3) >>) : x \in Sel }
    \cup
    { Bytes(<< OpNN(6, 1, k), OpNN(14, 1, nn), OpNNN(1, At(0)), Halt(3) >>) :
        k \in {3, 12, 200}, nn \in {158, 161} }

\* timers set from registers, read back
MaxTimerVal == 2
TimerVals == 0..MaxTimerVal
TimerPrograms ==
    { Bytes(<< OpNN(6, 1, a), OpNN(15, 1, 21), OpNN(6, 2, b), OpNN(15, 2, 24),
               OpNN(15, 3, 7), Halt(5) >>) : a \in TimerVals, b \in TimerVals }
    \cup
    { Bytes(<< OpNN(6, 1, 255), OpNN(15, 1, 21), Halt(2) >>) }

\* sprites drawn twice at the same place, or a second time shifted
Sprites == { << 255 >>, << 129, 0, 24 >>, << 0 >>, << 240, 144, 144, 144, 240 >> }
Places == { << 0, 0 >>, << 60, 30 >>, << 255, 255 >> }
DrawPrograms ==
    { Bytes(<< OpNNN(10, At(6)), OpNN(6, 1, p[1]), OpNN(6, 2, p[2]),
               Op(13, 1, 2, Len(sp8)), Op(13, 1, 2, Len(sp8)), Halt(5) >>) \o sp8 :
        p \in Places, sp8 \in Sprites }
    \cup
    { Bytes(<< OpNNN(10, At(7)), OpNN(6, 1, p[1]), OpNN(6, 2, p[2]),
               Op(13, 1, 2, Len(sp8)), OpNN(7, 1, 4), Op(13, 1, 2, Len(sp8)),
               Halt(6) >>) \o sp8 :
        p \in Places, sp8 \in Sprites }
    \cup
    { Bytes(<< OpNN(6, 15, 2), OpNN(6, 0, 3), OpNN(15, 0, 41), Op(13, 15, 15, 5),
               Op(13, 15, 0, 5), 224, Halt(6) >>) }

\* the remaining arms
MiscPrograms ==
    { Bytes(<< OpNN(12, 1, 15), OpNN(3, 1, 0), OpNN(4, 1, 1), Op(5, 1, 2, 0),
               Op(9, 1, 2, 0), Halt(5), Halt(6) >>),
      Bytes(<< OpNN(6, 0, 156), OpNNN(10, At(9)), OpNN(15, 0, 51), OpNN(6, 1, 7),
               OpNN(15, 1, 85), OpNN(6, 0, 0), OpNN(15, 1, 101), OpNN(15, 1, 30),
               Halt(8) >>),
      Bytes(<< OpNNN(10, 4095), OpNN(15, 0, 51) >>),
      Bytes(<< OpNNN(10, 4095), Op(13, 0, 0, 2) >>),
      Bytes(<< OpNNN(1, 4095) >>),
      Bytes(<< OpNNN(1, 4080) >>) }

\* no ROM, and ROMs around the largest that fits: a halt and non-zero filler
RomOfLen(len) ==
    [ k \in 1..len |-> IF k = 1 THEN 18 ELSE IF k = 2 THEN 0 ELSE (k % 255) + 1 ]

MaxRomExcess == 2
RomLens ==
    {0, 2} \cup { MEMORY_SIZE - PROGRAM_START + e : e \in (0 - MaxRomExcess)..MaxRomExcess }
LoadPrograms == { RomOfLen(len) : len \in RomLens }

\* the four skips on registers that agree in the low nibble only, agree, or differ
SkipVals == {2, 18}
SkipWords ==
    { OpNN(a, 1, nn) : a \in {3, 4}, nn \in SkipVals }
        \cup { Op(a, x, y, 0) : a \in {5, 9}, x \in {1, 2}, y \in {1, 2} }
SkipPrograms ==
    { Bytes(<< OpNN(6, 1, a), OpNN(6, 2, b), w, Halt(3), Halt(4) >>) :
        a \in SkipVals, b \in SkipVals, w \in SkipWords }

\* every byte value converted to decimal digits, from register 0 or register 15
BcdPrograms ==
    { Bytes(<< OpNN(6, x, value), OpNNN(10, At(4)), OpNN(15, x, 51), Halt(3) >>) :
        value \in 0..(U8 - 1), x \in {0, 15} }

\* stores with I set by FX29 to the glyph of a digit
FontPrograms ==
    { Bytes(<< OpNN(6, 0, digit), OpNN(15, 0, 41), OpNN(6, 0, 255), OpNN(15, 0, store),
               Halt(4) >>) : digit \in {0, 3, 15}, store \in {51, 85} }

\* a jump, a jump with offset and a call to odd addresses, where the bytes
\* read as a jump to the same address or as a return
OddPrograms ==
    { Bytes(<< OpNNN(1, At(0) + 3), OpNN(6, 1, 18), 768 + 3 >>),
      Bytes(<< OpNN(6, 0, 1), OpNNN(11, At(2)), 18, 5 * 256 >>),
      Bytes(<< OpNNN(2, At(1) + 1), 0, 238 * 256, Halt(3) >>) }

\* registers stored as a block and loaded back, at once or after the
\* registers have been overwritten
BlockSetup == << OpNN(6, 0, 17), OpNN(6, 1, 34), OpNN(6, 2, 51), OpNN(6, 15, 153) >>
BlockClobber == << OpNN(6, 0, 170), OpNN(6, 1, 187), OpNN(6, 15, 204) >>
BlockPrograms ==
    { Bytes(BlockSetup \o << OpNNN(10, At(8)), OpNN(15, x, 85), OpNN(15, x, 101),
                             Halt(7) >>) : x \in {0, 1, 2, 15} }
    \cup
    { Bytes(BlockSetup \o << OpNNN(10, At(11)), OpNN(15, x, 85) >> \o BlockClobber
              \o << OpNN(15, x, 101), Halt(10) >>) : x \in {0, 1, 2, 15} }

Programs ==
    AluPrograms \cup LogicPrograms \cup CallPrograms \cup InvalidPrograms
        \cup KeyPrograms \cup TimerPrograms \cup DrawPrograms \cup MiscPrograms
        \cup LoadPrograms \cup SkipPrograms \cup BcdPrograms \cup FontPrograms
        \cup OddPrograms \cup BlockPrograms

\* keys the host presses and releases
HostKeys == {3, 12}

\* ------------------------------------------------------------------------
\* State
\* ------------------------------------------------------------------------
VARIABLES
    chip8,      \* main: let mut chip8: Chip8
    rom,        \* main: rom_bytes, the image handed to load_rom
    mainpc,     \* main: "start" before the loop, "loop" in it
    panicked,   \* the process aborted on a panic
    last,       \* the machine as the most recent cycle() call found it
    prev,       \* the machine as the cycle() call before that found it
    decoded,    \* cycle: the locals opcode and decoded of the most recent fetch
    ghost,      \* the calls and returns executed so far
    sched       \* main: now, last_cpu_tick, last_timer_tick

vars == << chip8, rom, mainpc, panicked, last, prev, decoded, ghost, sched >>

Snapshot(self, ran, opcode) ==
    [ ran |-> ran, opcode |-> opcode, pc |-> self.pc, sp |-> self.sp, v |-> self.v,
      i |-> self.i, display |-> self.display ]

Brief(snapshot) ==
    [ ran |-> snapshot.ran, opcode |-> snapshot.opcode, pc |-> snapshot.pc,
      sp |-> snapshot.sp, v |-> snapshot.v ]

NoCycle == Snapshot(Chip8New, FALSE, -1)

\* cycle: let opcode = self.fetch(); let decoded = DecodedFields::new(opcode)
Decode(opcode) == [ opcode |-> opcode, fields |-> << DecodedFields(opcode) >> ]

NotDecoded(opcode) == [ opcode |-> opcode, fields |-> << >> ]

\* calls: the 2NNN executed; pushes: those of them that pushed an entry;
\* returns: the 00EE that popped an entry; sites: the addresses of the 2NNN
\* whose entry is on the stack, oldest first
NoCalls == [ calls |-> 0, pushes |-> 0, returns |-> 0, sites |-> << >> ]

Record(g, self) ==
    LET opcode == IF Waiting(self) \/ self.pc + 1 >= MEMORY_SIZE THEN -1 ELSE FetchOpcode(self)
    IN  IF opcode >= 0 /\ opcode \div 4096 = 2
        THEN [ g EXCEPT !.calls = g.calls + 1,
                        !.pushes = IF self.sp < STACK_SIZE THEN g.pushes + 1 ELSE g.pushes,
                        !.sites = IF self.sp < STACK_SIZE THEN Append(g.sites, self.pc)
                                  ELSE g.sites ]
        ELSE IF opcode = 238 /\ self.sp > 0
        THEN [ g EXCEPT !.returns = g.returns + 1,
                        !.sites = SubSeq(g.sites, 1, Len(g.sites) - 1) ]
        ELSE g

\* main: the clock readings, in nanoseconds since the loop was entered
CPU_HZ == 700
TIMER_HZ == 60
cpu_interval == (1000000000 + CPU_HZ \div 2) \div CPU_HZ
timer_interval == (1000000000 + TIMER_HZ \div 2) \div TIMER_HZ

SchedStart ==
    [ now |-> 0, last_cpu_tick |-> 0, last_timer_tick |-> 0,
      ran_cycle |-> FALSE, ran_timers |-> FALSE ]

InitAux ==
    /\ decoded = NotDecoded(-1)
    /\ ghost = NoCalls
    /\ sched = SchedStart

Init ==
    /\ chip8 = Chip8New
    /\ rom \in Programs
    /\ mainpc = "start"
    /\ panicked = FALSE
    /\ last = NoCycle
    /\ prev = Brief(NoCycle)
    /\ InitAux

\* main: chip8.load_rom(&rom_bytes)
LoadRom ==
    /\ mainpc = "start"
    /\ ~ panicked
    /\ IF LoadRomPanics(rom)
       THEN panicked' = TRUE /\ UNCHANGED << chip8, mainpc >>
       ELSE chip8' = load_rom(chip8, rom) /\ mainpc' = "loop" /\ UNCHANGED panicked
    /\ UNCHANGED << rom, last, prev, decoded, ghost, sched >>

\* the inputs one cycle() call draws: the random byte of CXNN, and whether
\* the build checks integer overflow (read by DXYN's address arithmetic)
NextOpcode(self) == IF Waiting(self) \/ FetchPanics(self) THEN -1 ELSE FetchOpcode(self)

RandomInputs(self) == IF NextOpcode(self) \div 4096 = 12 THEN 0..(U8 - 1) ELSE {0}

OverflowInputs(self) == IF NextOpcode(self) \div 4096 = 13 THEN BOOLEAN ELSE {TRUE}

\* main: chip8.cycle()
Cycle ==
    /\ mainpc = "loop"
    /\ ~ panicked
    /\ \E random \in RandomInputs(chip8), overflow_checks \in OverflowInputs(chip8) :
         IF CyclePanics(chip8, overflow_checks)
         THEN panicked' = TRUE /\ UNCHANGED chip8
         ELSE chip8' = cycle(chip8, random) /\ UNCHANGED panicked
    /\ last' = Snapshot(chip8, TRUE, NextOpcode(chip8))
    /\ prev' = Brief(last)
    /\ decoded' = IF NextOpcode(chip8) >= 0 THEN Decode(NextOpcode(chip8)) ELSE decoded
    /\ ghost' = IF panicked' THEN ghost ELSE Record(ghost, chip8)
    /\ UNCHANGED << rom, mainpc, sched >>

\* main: chip8.tick_timers()
TickTimers ==
    /\ mainpc = "loop"
    /\ ~ panicked
    /\ chip8' = tick_timers(chip8)
    /\ UNCHANGED << rom, mainpc, panicked, last, prev, decoded, ghost, sched >>

\* the host's keypad source writes chip8.keys
PressKey ==
    /\ mainpc = "loop"
    /\ ~ panicked
    /\ \E k \in HostKeys : chip8' = [ chip8 EXCEPT !.keys[k] = TRUE ]
    /\ UNCHANGED << rom, mainpc, panicked, last, prev, decoded, ghost, sched >>

ReleaseKey ==
    /\ mainpc = "loop"
    /\ ~ panicked
    /\ \E k \in HostKeys : chip8' = [ chip8 EXCEPT !.keys[k] = FALSE ]
    /\ UNCHANGED << rom, mainpc, panicked, last, prev, decoded, ghost, sched >>

Next == LoadRom \/ Cycle \/ TickTimers \/ PressKey \/ ReleaseKey

Spec == Init /\ [][Next]_vars

\* ------------------------------------------------------------------------
\* The machine in the awaiting-key(X) state, for every register X: the
\* state the key-wait guard of cycle() handles
\* ------------------------------------------------------------------------
InitKeyWait ==
    /\ \E x \in 0..(NUM_REGISTERS - 1) :
         chip8 = [ Chip8New EXCEPT !.waiting_for_key = Some(x) ]
    /\ rom \in KeyPrograms
    /\ mainpc = "start"
    /\ panicked = FALSE
    /\ last = NoCycle
    /\ prev = Brief(NoCycle)
    /\ InitAux

SpecKeyWait == InitKeyWait /\ [][Next]_vars

\* ------------------------------------------------------------------------
\* The control loop of main with its clock: one pass reads the clock, runs
\* cycle() if the instruction interval has elapsed, runs tick_timers() if
\* the timer interval has elapsed, and sleeps
\* ------------------------------------------------------------------------
SleepNs == 500000
MaxNowMs == 18

\* the time from one reading of the clock to the next: the sleep alone, the
\* sleep and a millisecond of work, or a stall longer than the timer interval
Elapsed == { SleepNs, 3 * SleepNs, 34 * SleepNs }

CpuDue_CatchUp(s, now) == now - s.last_timer_tick >= cpu_interval

CpuDue(s, now) == now - s.last_cpu_tick >= cpu_interval

TimerDue_OnlyWhenNoCycle(s, now) ==
    now - s.last_timer_tick >= timer_interval /\ ~ CpuDue(s, now)

TimerDue(s, now) == now - s.last_timer_tick >= timer_interval

SchedPrograms ==
    { Bytes(<< OpNN(6, 0, 9), OpNN(15, 0, 10), OpNN(7, 0, 1), Halt(3) >>),
      Bytes(<< OpNN(6, 1, MaxTimerVal), OpNN(15, 1, 21), OpNN(15, 1, 24), OpNN(15, 3, 7),
               Halt(4) >>),
      Bytes(<< OpNN(6, 1, 255), OpNN(15, 1, 21), Halt(2) >>) }

InitSched ==
    /\ \/ chip8 = Chip8New
       \/ chip8 = [ Chip8New EXCEPT !.waiting_for_key = Some(0),
                                    !.delay_timer = MaxTimerVal ]
    /\ rom \in SchedPrograms
    /\ mainpc = "start"
    /\ panicked = FALSE
    /\ last = NoCycle
    /\ prev = Brief(NoCycle)
    /\ InitAux

Pass ==
    /\ mainpc = "loop"
    /\ ~ panicked
    /\ \E elapsed \in Elapsed, random \in RandomInputs(chip8),
          overflow_checks \in OverflowInputs(chip8) :
         LET now == sched.now + elapsed
             run_cycle == CpuDue(sched, now)
             panics == run_cycle /\ CyclePanics(chip8, overflow_checks)
             run_timers == ~ panics /\ TimerDue(sched, now)
             cycled == IF run_cycle /\ ~ panics THEN cycle(chip8, random) ELSE chip8
         IN  /\ now <= MaxNowMs * 1000000
             /\ panicked' = panics
             /\ chip8' = IF run_timers THEN tick_timers(cycled) ELSE cycled
             /\ sched' = [ now |-> now,
                           last_cpu_tick |-> IF run_cycle THEN now ELSE sched.last_cpu_tick,
                           last_timer_tick |-> IF run_timers THEN now
                                               ELSE sched.last_timer_tick,
                           ran_cycle |-> run_cycle,
                           ran_timers |-> run_timers ]
             /\ IF run_cycle
                THEN /\ last' = Snapshot(chip8, TRUE, NextOpcode(chip8))
                     /\ prev' = Brief(last)
                     /\ decoded' = IF NextOpcode(chip8) >= 0 THEN Decode(NextOpcode(chip8))
                                   ELSE decoded
                     /\ ghost' = IF panics THEN ghost ELSE Record(ghost, chip8)
                ELSE UNCHANGED << last, prev, decoded, ghost >>
    /\ UNCHANGED << rom, mainpc >>

NextSched == LoadRom \/ Pass \/ PressKey \/ ReleaseKey

SpecSched == InitSched /\ [][NextSched]_vars

\* ------------------------------------------------------------------------
\* The decoder alone, on every 16-bit instruction word
\* ------------------------------------------------------------------------
Words == 0..(U16 - 1)

InitDecode ==
    /\ chip8 = Chip8New
    /\ rom = << >>
    /\ mainpc = "start"
    /\ panicked = FALSE
    /\ last = NoCycle
    /\ prev = Brief(NoCycle)
    /\ \E opcode \in Words : decoded = NotDecoded(opcode)
    /\ ghost = NoCalls
    /\ sched = SchedStart

DecodeWord ==
    /\ decoded.fields = << >>
    /\ decoded' = Decode(decoded.opcode)
    /\ UNCHANGED << chip8, rom, mainpc, panicked, last, prev, ghost, sched >>

NextDecode == DecodeWord

SpecDecode == InitDecode /\ [][NextDecode]_vars

\* ------------------------------------------------------------------------
\* Properties
\* ------------------------------------------------------------------------
IsFX0A(opcode) == opcode >= 0 /\ opcode \div 4096 = 15 /\ opcode % 256 = 10
IsCall(opcode) == opcode >= 0 /\ opcode \div 4096 = 2
IsReturn(opcode) == opcode = 238
FieldX(opcode) == (opcode \div 256) % 16
FieldY(opcode) == (opcode \div 16) % 16
FieldN(opcode) == opcode % 16
FieldNN(opcode) == opcode % 256
FieldNNN(opcode) == opcode % 4096

PressedKeys(self) == { k \in 0..(NUM_KEYS - 1) : self.keys[k] }
LowestPressed(self) == CHOOSE k \in PressedKeys(self) : \A j \in PressedKeys(self) : k <= j

\* a step that is one completed cycle() call
CycleRuns == Cycle /\ ~ panicked'

\* C1: a cycle that executes FX0A with no key pressed leaves the machine
\* awaiting a key for register X, and a cycle that finds the machine
\* awaiting a key with no key pressed changes neither the program counter
\* nor any register and leaves it awaiting.
C1_WaitForKeyEngages ==
    [][ /\ (IsFX0A(NextOpcode(chip8)) /\ PressedKeys(chip8) = {} /\ CycleRuns
              => chip8'.waiting_for_key = Some(FieldX(NextOpcode(chip8))))
        /\ (Waiting(chip8) /\ PressedKeys(chip8) = {} /\ CycleRuns
              => /\ chip8'.pc = chip8.pc
                 /\ chip8'.v = chip8.v
                 /\ chip8'.waiting_for_key = chip8.waiting_for_key) ]_vars

C3_CallReturnRoundTrip ==
    ( /\ prev.ran /\ last.ran /\ ~ panicked
      /\ IsCall(prev.opcode) /\ prev.sp < STACK_SIZE
      /\ IsReturn(last.opcode) /\ last.pc = FieldNNN(prev.opcode) )
    => /\ chip8.pc = prev.pc + 2
       /\ chip8.sp = prev.sp

\* a call made with other calls outstanding has been returned from
C3_Witness ==
    /\ prev.ran /\ last.ran /\ ~ panicked
    /\ IsCall(prev.opcode) /\ prev.sp = STACK_SIZE - 1
    /\ IsReturn(last.opcode) /\ last.pc = FieldNNN(prev.opcode)
    /\ chip8.pc = prev.pc + 2
    /\ chip8.sp = STACK_SIZE - 1

\* C4: a call executed with the stack full, or a return executed with the
\* stack empty, changes nothing of the machine but the program counter,
\* which is the address of the following instruction.
C4_StackFaultOnlyAdvances ==
    [][ ( /\ \/ IsCall(NextOpcode(chip8)) /\ chip8.sp = STACK_SIZE
             \/ IsReturn(NextOpcode(chip8)) /\ chip8.sp = 0
          /\ CycleRuns )
        => chip8' = [ chip8 EXCEPT !.pc = chip8.pc + 2 ] ]_vars

\* a return on the empty stack has been passed over, after the stack had
\* been filled to its last entry (and the call on the full stack passed over)
C4_Witness ==
    /\ last.ran /\ ~ panicked
    /\ IsReturn(last.opcode) /\ last.sp = 0
    /\ chip8.pc = last.pc + 2 /\ chip8.sp = 0
    /\ chip8.stack[STACK_SIZE - 1] = At(1)

\* the unassigned and malformed instruction words
AssignedFX == {7, 10, 21, 24, 30, 41, 51, 85, 101}

InvalidWord(opcode) ==
    /\ opcode >= 0
    /\ \/ opcode \div 4096 = 0 /\ opcode \notin {224, 238}
       \/ opcode \div 4096 \in {5, 9} /\ FieldN(opcode) # 0
       \/ opcode \div 4096 = 8 /\ FieldN(opcode) \notin (0..7) \cup {14}
       \/ opcode \div 4096 = 14 /\ FieldNN(opcode) \notin {158, 161}
       \/ opcode \div 4096 = 15 /\ FieldNN(opcode) \notin AssignedFX

\* C5: a cycle that executes an unassigned or malformed instruction word
\* changes nothing of the machine but the program counter, which advances
\* by 2; the cycle after it fetches at the following address.
C5_InvalidWordOnlyAdvances ==
    /\ [][ InvalidWord(NextOpcode(chip8)) /\ CycleRuns
             => chip8' = [ chip8 EXCEPT !.pc = chip8.pc + 2 ] ]_vars
    /\ [](prev.ran /\ last.ran /\ InvalidWord(prev.opcode) => last.pc = prev.pc + 2)

\* an invalid word has been passed over in a machine whose registers,
\* index, stack, display and timer are all set, and the next instruction ran
C5_Witness ==
    /\ prev.ran /\ last.ran /\ ~ panicked
    /\ InvalidWord(prev.opcode) /\ prev.opcode \div 4096 = 15
    /\ last.pc = prev.pc + 2 /\ last.opcode = OpNN(7, 1, 1)
    /\ chip8.v[1] = 6 /\ chip8.v[15] = 0 /\ chip8.i = FONT_START
    /\ chip8.sp = 1 /\ chip8.display # ClearDisplay /\ chip8.delay_timer = 1

Is8XYN(opcode, n) == opcode >= 0 /\ opcode \div 4096 = 8 /\ FieldN(opcode) = n
IsDXYN(opcode) == opcode >= 0 /\ opcode \div 4096 = 13

\* the last completed cycle executed 8XYN with this N
Last8(n) == last.ran /\ ~ panicked /\ Is8XYN(last.opcode, n)
LastVX == last.v[FieldX(last.opcode)]
LastVY == last.v[FieldY(last.opcode)]

\* C6: after 8XY6 the flag register is the least significant bit of
\* register X before the shift, and after 8XYE its most significant bit,
\* for every X in 0..15 (so whatever register Y holds).
C6_ShiftFlag ==
    /\ Last8(6) => chip8.v[15] = LastVX % 2
    /\ Last8(14) => chip8.v[15] = LastVX \div 128

\* C7: after 8XY4 the flag register is 1 if register X + register Y
\* exceeded 255 and 0 otherwise, and for X # 15 register X is the sum
\* modulo 256.
C7_AddWithCarry ==
    Last8(4) =>
        /\ chip8.v[15] = IF LastVX + LastVY > 255 THEN 1 ELSE 0
        /\ FieldX(last.opcode) # 15 => chip8.v[FieldX(last.opcode)] = (LastVX + LastVY) % 256

\* 0xFF + 0x01 has given 0x00 with the flag set
C7_Witness ==
    /\ Last8(4) /\ FieldX(last.opcode) = 1 /\ FieldY(last.opcode) = 0
    /\ LastVX = 255 /\ LastVY = 1
    /\ chip8.v[1] = 0 /\ chip8.v[15] = 1

\* the flag of a subtraction minuend - subtrahend: 1 when no borrow
NoBorrow(minuend, subtrahend) == IF minuend >= subtrahend THEN 1 ELSE 0

\* C8 as stated, for every register X: after 8XY5 register X is (X - Y)
\* mod 256 and the flag register is 1 exactly when X >= Y; after 8XY7
\* register X is (Y - X) mod 256 and the flag is 1 exactly when Y >= X.
C8_SubtractEveryX ==
    /\ Last8(5) =>
         /\ chip8.v[FieldX(last.opcode)] = (LastVX - LastVY + 256) % 256
         /\ chip8.v[15] = NoBorrow(LastVX, LastVY)
    /\ Last8(7) =>
         /\ chip8.v[FieldX(last.opcode)] = (LastVY - LastVX + 256) % 256
         /\ chip8.v[15] = NoBorrow(LastVY, LastVX)

\* C8 amended: the flag register is as stated for every X, and register X
\* holds the difference for X # 15 (register 15 holds the flag).
C8_SubtractNoBorrow ==
    /\ Last8(5) =>
         /\ FieldX(last.opcode) # 15 =>
              chip8.v[FieldX(last.opcode)] = (LastVX - LastVY + 256) % 256
         /\ chip8.v[15] = NoBorrow(LastVX, LastVY)
    /\ Last8(7) =>
         /\ FieldX(last.opcode) # 15 =>
              chip8.v[FieldX(last.opcode)] = (LastVY - LastVX + 256) % 256
         /\ chip8.v[15] = NoBorrow(LastVY, LastVX)

\* equal operands have given 0 with the flag set
C8_Witness ==
    /\ Last8(5) /\ FieldX(last.opcode) = 0 /\ FieldY(last.opcode) = 1
    /\ LastVX = 3 /\ LastVY = 3
    /\ chip8.v[0] = 0 /\ chip8.v[15] = 1

\* the pixels under the set bits of the sprite DXYN draws from self
SpriteBits(self, opcode) ==
    { << (self.v[FieldY(opcode)] + row) % 32, (self.v[FieldX(opcode)] + bit) % 64 >> :
        << row, bit >> \in
          { rb \in (0..(FieldN(opcode) - 1)) \X (0..7) :
              (Mem(self.memory, self.i + rb[1]) \div (2 ^ (7 - rb[2]))) % 2 = 1 } }

DrawsPlainly(opcode) == IsDXYN(opcode) /\ FieldX(opcode) # 15 /\ FieldY(opcode) # 15

\* C9: DXYN with X, Y # 15 toggles exactly the pixels under the set bits of
\* the sprite, with wraparound, and leaves the flag register 1 exactly when
\* one of them was set before; drawn again with the same registers and
\* index, it gives back the display from before the first draw, and a
\* sprite with a set bit that met no set pixel on the first draw sets the
\* flag on the second.
C9_DrawSprite ==
    [][ DrawsPlainly(NextOpcode(chip8)) /\ CycleRuns =>
          LET bits == SpriteBits(chip8, NextOpcode(chip8))
              same == /\ last.ran /\ last.opcode = NextOpcode(chip8)
                      /\ last.i = chip8.i
                      /\ last.v[FieldX(last.opcode)] = chip8.v[FieldX(last.opcode)]
                      /\ last.v[FieldY(last.opcode)] = chip8.v[FieldY(last.opcode)]
          IN  /\ chip8'.display = (chip8.display \ bits) \cup (bits \ chip8.display)
              /\ chip8'.v[15] = IF bits \cap chip8.display # {} THEN 1 ELSE 0
              /\ same => chip8'.display = last.display
              /\ same /\ bits # {} /\ bits \cap last.display = {}
                   => chip8.v[15] = 0 /\ chip8'.v[15] = 1 ]_vars

\* a sprite that wraps on both axes has been drawn twice on a clear
\* display: flag 0 then 1, and the display is clear again
C9_Witness ==
    /\ prev.ran /\ last.ran /\ ~ panicked
    /\ DrawsPlainly(last.opcode) /\ prev.opcode = last.opcode
    /\ last.v[1] = 60 /\ last.v[2] = 30 /\ prev.v[1] = 60 /\ prev.v[2] = 30
    /\ FieldN(last.opcode) = 3
    /\ << 0, 0 >> \in last.display /\ << 30, 60 >> \in last.display
    /\ last.v[15] = 0 /\ chip8.v[15] = 1
    /\ chip8.display = ClearDisplay

\* C10: one timer-decay step takes one from each non-zero timer, leaves a
\* zero timer at zero and changes nothing else; both timers stay in 0..255.
C10_TimerDecay ==
    /\ [][ (chip8.delay_timer > 0 \/ chip8.sound_timer > 0) /\ TickTimers =>
             chip8' = [ chip8 EXCEPT
                          !.delay_timer = IF @ = 0 THEN 0 ELSE @ - 1,
                          !.sound_timer = IF @ = 0 THEN 0 ELSE @ - 1 ] ]_vars
    /\ [][ chip8.delay_timer = 0 /\ chip8.sound_timer = 0 /\ TickTimers
             => chip8' = chip8 ]_vars
    /\ [](chip8.delay_timer \in 0..255 /\ chip8.sound_timer \in 0..255)

\* the sound timer, set to 2, has decayed once while the delay timer, set
\* to 1, has decayed to zero
C10_Witness ==
    /\ last.ran /\ ~ panicked
    /\ last.opcode = OpNN(15, 2, 24) /\ last.v[2] = 2 /\ last.v[1] = 1
    /\ chip8.sound_timer = 1 /\ chip8.delay_timer = 0

\* C11: a pass of the control loop runs at most one instruction cycle and at
\* most one timer decay; the timers decay in a pass exactly when the timer
\* interval has elapsed since their last decay, whether or not a cycle ran
\* in that pass and whether or not the machine awaits a key; a cycle runs
\* exactly when the instruction interval has elapsed since the last cycle,
\* whether or not the timers decayed.
C11_SchedulerDecoupled ==
    [][Pass /\ ~ panicked' =>
        LET cycle_due == sched'.now - sched.last_cpu_tick >= cpu_interval
            timers_due == sched'.now - sched.last_timer_tick >= timer_interval
        IN  /\ sched'.ran_cycle = cycle_due
            /\ sched'.ran_timers = timers_due
            /\ \E random \in RandomInputs(chip8) :
                 LET cycled == IF cycle_due THEN cycle(chip8, random) ELSE chip8
                 IN  chip8' = IF timers_due THEN tick_timers(cycled) ELSE cycled]_vars

C11_Witness ==
    /\ sched.ran_timers
    /\ ~ sched.ran_cycle
    /\ Waiting(chip8)
    /\ chip8.delay_timer = MaxTimerVal - 1
\* C12: load_rom accepts a ROM exactly when PROGRAM_START + its length is at
\* most the memory size (3584 bytes fit, 3585 do not); an accepted ROM lies
\* in memory from PROGRAM_START on, byte for byte, and every other byte of
\* memory, the font table included, and the rest of the machine are
\* unchanged; a rejected load fails and writes nothing.
C12_LoadRom ==
    [][LoadRom =>
        IF PROGRAM_START + Len(rom) <= MEMORY_SIZE
        THEN /\ ~ panicked'
             /\ mainpc' = "loop"
             /\ \A a \in 0..(MEMORY_SIZE - 1) :
                  Mem(chip8'.memory, a) =
                      IF a >= PROGRAM_START /\ a < PROGRAM_START + Len(rom)
                      THEN rom[a - PROGRAM_START + 1]
                      ELSE Mem(chip8.memory, a)
             /\ [ chip8' EXCEPT !.memory = chip8.memory ] = chip8
        ELSE /\ panicked'
             /\ mainpc' = "start"
             /\ chip8' = chip8]_vars

C12_Witness ==
    /\ Len(rom) = MEMORY_SIZE - PROGRAM_START
    /\ mainpc = "loop"
    /\ Mem(chip8.memory, MEMORY_SIZE - 1) = rom[Len(rom)]
    /\ Mem(chip8.memory, FONT_START) = FONT_SET[1]
\* the condition of the skip instruction in this word, on these registers
IsSkip(opcode) ==
    /\ opcode >= 0
    /\ \/ opcode \div 4096 \in {3, 4}
       \/ opcode \div 4096 \in {5, 9} /\ FieldN(opcode) = 0

SkipCondition(opcode, v) ==
    CASE opcode \div 4096 = 3 -> v[FieldX(opcode)] = FieldNN(opcode)
      [] opcode \div 4096 = 4 -> v[FieldX(opcode)] # FieldNN(opcode)
      [] opcode \div 4096 = 5 -> v[FieldX(opcode)] = v[FieldY(opcode)]
      [] opcode \div 4096 = 9 -> v[FieldX(opcode)] # v[FieldY(opcode)]

\* C13: 3XNN and 4XNN compare register X with the whole byte NN, 5XY0 and
\* 9XY0 compare register X with register Y; the cycle leaves pc at the
\* instruction's address + 4 when the condition holds and + 2 when it does
\* not, and changes nothing else of the machine.
C13_ConditionalSkips ==
    [][IsSkip(NextOpcode(chip8)) /\ CycleRuns =>
        chip8' = [ chip8 EXCEPT !.pc =
                     IF SkipCondition(NextOpcode(chip8), chip8.v)
                     THEN chip8.pc + 4 ELSE chip8.pc + 2 ]]_vars

\* 3XNN with NN = 0x02 on a register holding 0x12 has not skipped
C13_Witness ==
    /\ last.ran /\ ~ panicked
    /\ last.opcode = OpNN(3, 1, 2)
    /\ last.v[1] = 18
    /\ chip8.pc = last.pc + 2
\* C14: for every 16-bit word w the decoded fields satisfy
\* (first_nibble << 12) | (x << 8) | (y << 4) | n = w, nn = (y << 4) | n and
\* nnn = (x << 8) | (y << 4) | n, and first_nibble, x, y and n lie in 0..15.
C14_DecodeRoundTrip ==
    decoded.fields # << >> =>
        LET w == decoded.opcode
            d == decoded.fields[1]
        IN  /\ BitOr(BitOr(d.first_nibble * 4096, d.x * 256), BitOr(d.y * 16, d.n)) = w
            /\ d.nn = BitOr(d.y * 16, d.n)
            /\ d.nnn = BitOr(d.x * 256, BitOr(d.y * 16, d.n))
            /\ d.first_nibble \in 0..15
            /\ d.x \in 0..15
            /\ d.y \in 0..15
            /\ d.n \in 0..15

\* 0xD125 has been decoded
C14_Witness ==
    /\ decoded.opcode = 53541
    /\ decoded.fields =
         << [ first_nibble |-> 13, x |-> 1, y |-> 2, n |-> 5, nn |-> 37, nnn |-> 293 ] >>
IsFX(opcode, nn) == opcode >= 0 /\ opcode \div 4096 = 15 /\ FieldNN(opcode) = nn

\* C15: a cycle that executes FX33 with register X = v leaves the hundreds,
\* tens and ones digits of v in memory[I], memory[I + 1] and memory[I + 2],
\* and changes no other byte of memory, no register and not I.
C15_BcdStore ==
    [][IsFX(NextOpcode(chip8), 51) /\ CycleRuns =>
        LET value == chip8.v[FieldX(NextOpcode(chip8))]
            hundreds == Mem(chip8'.memory, chip8.i)
            tens == Mem(chip8'.memory, chip8.i + 1)
            ones == Mem(chip8'.memory, chip8.i + 2)
        IN  /\ hundreds \in 0..9 /\ tens \in 0..9 /\ ones \in 0..9
            /\ 100 * hundreds + 10 * tens + ones = value
            /\ \A a \in (0..(MEMORY_SIZE - 1)) \ (chip8.i..(chip8.i + 2)) :
                 Mem(chip8'.memory, a) = Mem(chip8.memory, a)
            /\ [ chip8' EXCEPT !.memory = chip8.memory ] =
                  [ chip8 EXCEPT !.pc = chip8.pc + 2 ]]_vars

\* 156 has been stored as 1, 5, 6
C15_Witness ==
    /\ last.ran /\ ~ panicked
    /\ last.opcode = OpNN(15, 0, 51)
    /\ last.v[0] = 156
    /\ Mem(chip8.memory, chip8.i) = 1
    /\ Mem(chip8.memory, chip8.i + 1) = 5
    /\ Mem(chip8.memory, chip8.i + 2) = 6
    /\ chip8.i = last.i
    /\ chip8.v = last.v
\* C16: in every reachable state the bytes of the font table are the bytes
\* installed at construction; no instruction overwrites them.
C16_FontImmutable ==
    \A k \in 1..Len(FONT_SET) : Mem(chip8.memory, FONT_START + k - 1) = FONT_SET[k]
\* C17: in every reachable state, whatever the program (jumps, calls,
\* jumps with offset and returns included), the program counter is even.
C17_PcEven == chip8.pc % 2 = 0
\* C18: once the control loop runs, every cycle completes: every memory
\* access of fetch, draw, BCD store, block store and block load lies inside
\* 0..MEMORY_SIZE - 1 and the session never aborts, whatever the program,
\* the machine with no ROM loaded included.
C18_NeverAborts == mainpc = "loop" => ~ panicked
\* every entry below sp is the address after the call that pushed it
EntriesFollowCalls(self, g) ==
    /\ Len(g.sites) = self.sp
    /\ \A k \in 1..Len(g.sites) : self.stack[k - 1] = g.sites[k] + 2

\* C19 as stated: sp lies in 0..16 and is the number of calls executed
\* minus the number of returns executed successfully, and every stack
\* entry below sp is the address of the instruction after the call that
\* pushed it.
C19_CallStackEveryCall ==
    /\ chip8.sp \in 0..STACK_SIZE
    /\ chip8.sp = ghost.calls - ghost.returns
    /\ EntriesFollowCalls(chip8, ghost)

\* C19, amended: after every step that changes sp, the stack or the count
\* of calls and returns executed, sp lies in 0..16 and is the number of
\* calls that pushed an entry (calls executed with fewer than 16 entries in
\* use) minus the number of returns that popped one; every stack entry
\* below sp is the address of the instruction after the call that pushed
\* it; and a return that pops continues after the most recent call whose
\* entry was still on the stack.
C19_CallStack ==
    [][chip8'.sp # chip8.sp \/ chip8'.stack # chip8.stack \/ ghost' # ghost =>
        /\ chip8'.sp \in 0..STACK_SIZE
        /\ chip8'.sp = ghost'.pushes - ghost'.returns
        /\ EntriesFollowCalls(chip8', ghost')
        /\ IsReturn(NextOpcode(chip8)) /\ chip8.sp > 0 =>
             /\ chip8'.pc = ghost.sites[Len(ghost.sites)] + 2
             /\ ghost'.sites = SubSeq(ghost.sites, 1, Len(ghost.sites) - 1)]_vars

\* seventeen calls, sixteen entries pushed, one of them popped again
C19_Witness ==
    /\ ghost.calls = STACK_SIZE + 1
    /\ ghost.pushes = STACK_SIZE
    /\ ghost.returns = 1
    /\ chip8.sp = STACK_SIZE - 1
    /\ last.ran /\ IsReturn(last.opcode)
\* C20: a cycle that executes FX55 leaves registers 0..X in memory[I..I + X]
\* and changes no register, no other byte of memory and not I; a cycle that
\* executes FX65 loads registers 0..X from memory[I..I + X] and changes no
\* register above X; an FX65 that follows an FX55 with the same X and I
\* leaves registers 0..X as they were before the store.
C20_BlockRoundTrip ==
    [][(IsFX(NextOpcode(chip8), 85) \/ IsFX(NextOpcode(chip8), 101)) /\ CycleRuns =>
        LET x == FieldX(NextOpcode(chip8))
        IN  /\ IsFX(NextOpcode(chip8), 85) =>
                 /\ \A a \in 0..(MEMORY_SIZE - 1) :
                      Mem(chip8'.memory, a) =
                          IF a >= chip8.i /\ a <= chip8.i + x THEN chip8.v[a - chip8.i]
                          ELSE Mem(chip8.memory, a)
                 /\ [ chip8' EXCEPT !.memory = chip8.memory ] =
                       [ chip8 EXCEPT !.pc = chip8.pc + 2 ]
            /\ IsFX(NextOpcode(chip8), 101) =>
                 /\ \A k \in 0..(NUM_REGISTERS - 1) :
                      chip8'.v[k] = IF k <= x THEN Mem(chip8.memory, chip8.i + k)
                                    ELSE chip8.v[k]
                 /\ [ chip8' EXCEPT !.v = chip8.v ] = [ chip8 EXCEPT !.pc = chip8.pc + 2 ]
                 /\ last.ran /\ last.opcode = OpNN(15, x, 85) /\ last.i = chip8.i =>
                      \A k \in 0..x : chip8'.v[k] = last.v[k]]_vars

\* registers 0..2, overwritten after the store, have been loaded back and
\* register 15 has kept its new value
C20_Witness ==
    /\ last.ran /\ ~ panicked
    /\ last.opcode = OpNN(15, 2, 101)
    /\ last.v[0] = 170 /\ last.v[1] = 187 /\ last.v[15] = 204
    /\ chip8.v[0] = 17 /\ chip8.v[1] = 34 /\ chip8.v[2] = 51 /\ chip8.v[15] = 204
    /\ chip8.i = last.i
====
